---- MODULE Spec2Model ----
(***************************************************************************)
(* Diabetes prediction API: the artifact loader, the preprocessing         *)
(* pipeline, the prediction engine (src/src/model_service.py) and the      *)
(* HTTP handlers (src/src/main.py).                                        *)
(*                                                                         *)
(* Numbers.  Patient fields are integers (bmi and HbA1c_level in tenths).  *)
(* Probabilities are integers in units of 1/100000, so that rounding to    *)
(* four decimals (units of 10) loses information as round() does.          *)
(*                                                                         *)
(* Handlers.  The handlers of main.py are `async def` bodies holding no    *)
(* await: each runs to completion on the event loop, so each is one        *)
(* action.  Concurrent requests are the interleavings of these actions.    *)
(***************************************************************************)
EXTENDS Integers, Sequences, FiniteSets, TLC

VARIABLES
    dir,      \* the models/ directory: which artifact files exist, and what they hold
    phase,    \* "import" (main.py not yet imported), "serving", "failed"
    svc,      \* the fields of the shared ModelService object (main.py:36)
    last      \* the last request handled, the handler's locals and its response

vars == <<dir, phase, svc, last>>

(***************************************************************************)
(* Bounds                                                                  *)
(***************************************************************************)
\* longest list of patients in one POST /predict/batch
MaxBatch == 2

(***************************************************************************)
(* Cell values of the one-row DataFrame / feature array: a number or a     *)
(* string (a categorical value that was not encoded).                      *)
(***************************************************************************)
Num(n) == [isStr |-> FALSE, n |-> n, s |-> ""]
Str(s) == [isStr |-> TRUE, n |-> 0, s |-> s]

IsNumeric(vec) == \A i \in 1..Len(vec) : ~vec[i].isStr

\* feature_order of _preprocess_input
FeatureOrder ==
    <<"gender", "age", "hypertension", "heart_disease",
      "smoking_history", "bmi", "HbA1c_level", "blood_glucose_level">>

NumFeatures == 8

\* feature_order.index(name), 0-based as in Python
IndexOf(name) == CHOOSE i \in 0..(NumFeatures - 1) : FeatureOrder[i + 1] = name

\* the column positions of a row, 0-based
Columns == 0..(NumFeatures - 1)

InFeatureOrder(name) == \E i \in 1..NumFeatures : FeatureOrder[i] = name

(***************************************************************************)
(* Requests.  DiabetesPredictionRequest accepts any string for gender and  *)
(* smoking_history (main.py:42, 46); the numeric fields are inside their   *)
(* ranges.  Patient 1 is the schema's example.                             *)
(***************************************************************************)
MkPatient(g, age, ht, hd, sm, bmi, hba, glu) ==
    [gender |-> Str(g), age |-> Num(age), hypertension |-> Num(ht),
     heart_disease |-> Num(hd), smoking_history |-> Str(sm), bmi |-> Num(bmi),
     HbA1c_level |-> Num(hba), blood_glucose_level |-> Num(glu)]

Patient ==
    <<MkPatient("Female", 45, 0, 0, "never", 255, 57, 140),
      MkPatient("Male", 67, 1, 1, "current", 312, 82, 220),
      MkPatient("Unknown", 45, 0, 0, "never", 255, 57, 140),
      MkPatient("Female", 30, 0, 0, "vape", 221, 50, 100)>>

PatientIds == 1..Len(Patient)

\* The values the request schema and predict's docstring document.
DocumentedClasses(col) ==
    IF col = "gender" THEN {"Female", "Male", "Other"}
    ELSE {"No Info", "current", "ever", "former", "never", "not current"}

CategoricalColumns == {"gender", "smoking_history"}

\* the lists of patients a batch request may carry
RECURSIVE SeqsUpTo(_)
SeqsUpTo(n) ==
    IF n = 0 THEN {<<>>}
    ELSE LET shorter == SeqsUpTo(n - 1)
         IN  shorter \cup {Append(s, p) : s \in {t \in shorter : Len(t) = n - 1},
                                            p \in PatientIds}

Batches == SeqsUpTo(MaxBatch)

(***************************************************************************)
(* Exceptions: the class, and what the message says.                       *)
(***************************************************************************)
Exc(cls, kind, col, value, allowed) ==
    [cls |-> cls, kind |-> kind, col |-> col, value |-> value, allowed |-> allowed]

NoExc == Exc("", "", "", "", <<>>)

\* model_service.py:192
ModelNotLoadedError == Exc("RuntimeError", "model_not_loaded", "", "", <<>>)

\* model_service.py:132-135
UnknownValueError(col, value, classes) ==
    Exc("ValueError", "unknown_value", col, value, classes)

\* numpy: an index outside the row's columns
IndexOutOfBounds == Exc("IndexError", "index_out_of_bounds", "", "", <<>>)

\* raised inside a loaded artifact (scaler.transform, model.predict)
ArtifactError(cls, kind) == Exc(cls, kind, "", "", <<>>)

Ok(vec) == [ok |-> TRUE, vec |-> vec, exc |-> NoExc]
Raise(e) == [ok |-> FALSE, vec |-> <<>>, exc |-> e]

(***************************************************************************)
(* Artifacts: what joblib.load returns for each file of models/.           *)
(***************************************************************************)
Seeds == {0, 1}

\* a pickled None: joblib.load returns None and is_model_loaded() is False
NoneClassifier ==
    [type |-> "NoneType", has_proba |-> FALSE, n_features |-> 0, seed |-> 0,
     raises |-> "ValueError"]

Classifier(has_proba, n_features, seed, raises) ==
    [type |-> IF has_proba THEN "RandomForestClassifier" ELSE "LinearSVC",
     has_proba |-> has_proba, n_features |-> n_features, seed |-> seed,
     raises |-> raises]

\* scikit-learn estimators: input validation raises ValueError
SklearnClassifiers ==
    {Classifier(hp, w, s, "ValueError") :
        hp \in BOOLEAN, w \in {3, NumFeatures}, s \in Seeds}

\* estimators of another library, raising another class on input they refuse
OtherClassifiers ==
    {Classifier(hp, w, 0, "TypeError") : hp \in BOOLEAN, w \in {3, NumFeatures}}

Classifiers == SklearnClassifiers \cup OtherClassifiers

NoScaler == [none |-> TRUE, mean |-> <<>>, scale |-> <<>>, raises |-> ""]

StandardScaler(e) ==
    [none |-> FALSE,
     mean |-> <<0, 42, 0, 0, 2, 273, 55, 138>>,
     scale |-> <<1, 22, 1, 1, 2, 66, 11, 41>>,
     raises |-> e]

\* label_encoders.pkl: a dict, in insertion order, of column -> classes_
NoEncoders == [none |-> TRUE, items |-> <<>>]
Encoders(items) == [none |-> FALSE, items |-> items]

GenderClasses == <<"Female", "Male", "Other">>
SmokingClasses == <<"No Info", "current", "ever", "former", "never", "not current">>

EncoderMaps ==
    {NoEncoders,
     Encoders(<<>>),
     Encoders(<<[col |-> "gender", classes |-> GenderClasses],
                [col |-> "smoking_history", classes |-> SmokingClasses]>>),
     Encoders(<<[col |-> "location", classes |-> <<"Alabama">>],
                [col |-> "gender", classes |-> GenderClasses]>>)}

NoList == [none |-> TRUE, items |-> <<>>]
List(items) == [none |-> FALSE, items |-> items]

\* (feature_indices.pkl, selected_features.pkl)
Selections ==
    {<<NoList, NoList>>,
     <<List(<<1, 5, 6>>), List(<<"age", "bmi", "HbA1c_level">>)>>,
     <<List(<<6, 1, 5>>), NoList>>,
     <<NoList, List(<<"age", "bmi", "HbA1c_level">>)>>,
     <<NoList, List(<<"age", "weight", "bmi">>)>>,
     <<NoList, List(<<>>)>>,
     <<List(<<>>), List(<<"age", "bmi", "HbA1c_level">>)>>,
     <<List(<<1, 8>>), NoList>>}

File(obj) == [exists |-> TRUE, obj |-> obj]
Missing(placeholder) == [exists |-> FALSE, obj |-> placeholder]

Dirs ==
    {[model |-> m, scaler |-> sc, encoders |-> en, features |-> sel[2],
      indices |-> sel[1]] :
        m \in {Missing(NoneClassifier), File(NoneClassifier)}
                \cup {File(c) : c \in Classifiers},
        sc \in {Missing(NoScaler), File(StandardScaler("ValueError"))},
        en \in {IF e.none THEN Missing(NoEncoders) ELSE File(e) : e \in EncoderMaps},
        sel \in {<<IF s[1].none THEN Missing(NoList) ELSE File(s[1]),
                   IF s[2].none THEN Missing(NoList) ELSE File(s[2])>> :
                     s \in Selections}}

(***************************************************************************)
(* ModelService.__init__ and _load_model                                   *)
(***************************************************************************)
NoType == [none |-> TRUE, name |-> ""]
TypeName(n) == [none |-> FALSE, name |-> n]

\* model_service.py:40-45: every field None before _load_model runs
EmptyService ==
    [model |-> NoneClassifier, scaler |-> NoScaler, label_encoders |-> NoEncoders,
     selected_features |-> NoList, feature_indices |-> NoList, model_type |-> NoType]

\* joblib.load of an optional file when it exists, the field's None otherwise
LoadOptional(file, none) == IF file.exists THEN file.obj ELSE none

\* _load_model: [ok, svc]; not ok is the FileNotFoundError re-raised at line 100
LoadModel(d) ==
    IF ~d.model.exists
    THEN [ok |-> FALSE, svc |-> EmptyService]
    ELSE [ok |-> TRUE,
          svc |-> [model |-> d.model.obj,
                   model_type |-> TypeName(d.model.obj.type),
                   scaler |-> LoadOptional(d.scaler, NoScaler),
                   label_encoders |-> LoadOptional(d.encoders, NoEncoders),
                   selected_features |-> LoadOptional(d.features, NoList),
                   feature_indices |-> LoadOptional(d.indices, NoList)]]

IsModelLoaded(s) == s.model.type # "NoneType"

GetModelType(s) == s.model_type

(***************************************************************************)
(* ModelService._preprocess_input                                          *)
(***************************************************************************)
\* position of value in encoder.classes_, 0-based: encoder.transform([value])
ClassCode(classes, value) ==
    (CHOOSE i \in 1..Len(classes) : classes[i] = value) - 1

InClasses(classes, value) == \E i \in 1..Len(classes) : classes[i] = value

\* the loop of lines 125-135 over label_encoders.items(), from item k on;
\* df is the row as a function of column name
RECURSIVE EncodeFrom(_, _, _)
EncodeFrom(items, k, df) ==
    IF k > Len(items) THEN [ok |-> TRUE, df |-> df, exc |-> NoExc]
    ELSE LET col == items[k].col
             classes == items[k].classes
         IN  IF col \notin DOMAIN df THEN EncodeFrom(items, k + 1, df)
             ELSE IF df[col].isStr /\ InClasses(classes, df[col].s)
             THEN EncodeFrom(items, k + 1,
                             [df EXCEPT ![col] = Num(ClassCode(classes, df[col].s))])
             ELSE [ok |-> FALSE, df |-> df,
                   exc |-> UnknownValueError(col, df[col].s, classes)]

\* lines 124-135: `if self.label_encoders:` is false for None and for {}
Encode(s, df) ==
    IF s.label_encoders.none \/ Len(s.label_encoders.items) = 0
    THEN [ok |-> TRUE, df |-> df, exc |-> NoExc]
    ELSE EncodeFrom(s.label_encoders.items, 1, df)

\* lines 140-149: df[feature_order].values
Reorder(df) == [i \in 1..NumFeatures |-> df[FeatureOrder[i]]]

\* scaler.transform: the per-column affine map, in hundredths; a cell that is
\* not a number is refused by the scaler
ScalerTransform(scaler, row) ==
    IF ~IsNumeric(row) \/ Len(row) # Len(scaler.mean)
    THEN Raise(ArtifactError(scaler.raises, "scaler_rejects_input"))
    ELSE Ok([i \in 1..Len(row) |->
                 Num(((row[i].n - scaler.mean[i]) * 100) \div scaler.scale[i])])

\* lines 152-153
Scale(s, row) == IF s.scaler.none THEN Ok(row) ELSE ScalerTransform(s.scaler, row)

\* line 157: features_array[:, self.feature_indices]
SelectByIndices(row, indices) ==
    IF \E k \in 1..Len(indices) : indices[k] >= Len(row)
    THEN Raise(IndexOutOfBounds)
    ELSE Ok([k \in 1..Len(indices) |-> row[indices[k] + 1]])

\* (mutant) the gathered columns come out in reverse order
RECURSIVE GatherReversed(_, _, _)
GatherReversed(row, names, k) ==
    IF k > Len(names) THEN <<>>
    ELSE IF InFeatureOrder(names[k])
         THEN GatherReversed(row, names, k + 1) \o <<row[IndexOf(names[k]) + 1]>>
         ELSE GatherReversed(row, names, k + 1)

\* lines 161-165: the columns gathered for the names found in feature_order
RECURSIVE Gather(_, _, _)
Gather(row, names, k) ==
    IF k > Len(names) THEN <<>>
    ELSE IF InFeatureOrder(names[k])
         THEN <<row[IndexOf(names[k]) + 1]>> \o Gather(row, names, k + 1)
         ELSE Gather(row, names, k + 1)

\* lines 161-167: `if selected_array:` keeps the full row when nothing was gathered
SelectByNames(row, names) ==
    LET selected_array == Gather(row, names, 1)
    IN  IF Len(selected_array) > 0 THEN Ok(selected_array) ELSE Ok(row)

\* lines 156-167
Select(s, row) ==
    IF ~s.feature_indices.none THEN SelectByIndices(row, s.feature_indices.items)
    ELSE IF ~s.selected_features.none THEN SelectByNames(row, s.selected_features.items)
    ELSE Ok(row)

PreprocessInput(s, patient) ==
    LET enc == Encode(s, patient)
    IN  IF ~enc.ok THEN Raise(enc.exc)
        ELSE LET scaled == Scale(s, Reorder(enc.df))
             IN  IF ~scaled.ok THEN scaled ELSE Select(s, scaled.vec)

(***************************************************************************)
(* The classifier artifact: an opaque, fixed function of the feature       *)
(* vector.  It refuses a vector of the wrong width or with a cell that is  *)
(* not a number.                                                           *)
(***************************************************************************)
\* One in probability units: 1.0
ProbOne == 100000

\* the scores the classifiers of the model give
ScoreGrid ==
    <<0, 3125, 15000, 29990, 29994, 29996, 30000, 50000, 69990, 69996, 70000,
      85000, 100000>>

RECURSIVE Weighted(_, _)
Weighted(vec, k) ==
    IF k > Len(vec) THEN 0 ELSE k * vec[k].n + Weighted(vec, k + 1)

ClassifierAccepts(model, vec) == Len(vec) = model.n_features /\ IsNumeric(vec)

\* predict_proba(features)[0]: the pair [p0, p1]
PredictProba(model, vec) ==
    LET p1 == ScoreGrid[((model.seed + Weighted(vec, 1)) % Len(ScoreGrid)) + 1]
    IN  <<ProbOne - p1, p1>>

\* model.predict(features)[0]
ModelPredict(model, vec) ==
    IF model.has_proba
    THEN (IF PredictProba(model, vec)[2] > PredictProba(model, vec)[1] THEN 1 ELSE 0)
    ELSE (model.seed + Weighted(vec, 1)) % 2

(***************************************************************************)
(* ModelService.predict                                                    *)
(***************************************************************************)
Returned(label, probability) ==
    [ok |-> TRUE, label |-> label, probability |-> probability, exc |-> NoExc]
Raised(e) == [ok |-> FALSE, label |-> 0, probability |-> 0, exc |-> e]

\* (mutant) the score of class 0 is taken
ProbabilityOfClassZero(model, vec, prediction) ==
    IF model.has_proba THEN PredictProba(model, vec)[1] ELSE prediction * ProbOne

\* lines 201-206: the probability reported for a prediction
Probability(model, vec, prediction) ==
    IF model.has_proba THEN PredictProba(model, vec)[2] ELSE prediction * ProbOne

ServicePredict(s, patient) ==
    IF ~IsModelLoaded(s) THEN Raised(ModelNotLoadedError)
    ELSE LET features == PreprocessInput(s, patient)
         IN  IF ~features.ok THEN Raised(features.exc)
             ELSE IF ~ClassifierAccepts(s.model, features.vec)
             THEN Raised(ArtifactError(s.model.raises, "classifier_rejects_input"))
             ELSE LET prediction == ModelPredict(s.model, features.vec)
                  IN  Returned(prediction,
                               Probability(s.model, features.vec, prediction))

(***************************************************************************)
(* The handlers of main.py                                                 *)
(***************************************************************************)
LowThreshold == 30000
HighThreshold == 70000

\* main.py:145-150
RiskLevelSingle(probability) ==
    IF probability < LowThreshold THEN "Low"
    ELSE IF probability < HighThreshold THEN "Medium"
    ELSE "High"

\* (mutant) the lower boundary belongs to Low
RiskLevelBatchInclusive(probability) ==
    IF probability <= LowThreshold THEN "Low"
    ELSE IF probability < HighThreshold THEN "Medium"
    ELSE "High"

\* main.py:181-186
RiskLevelBatch(probability) ==
    IF probability < LowThreshold THEN "Low"
    ELSE IF probability < HighThreshold THEN "Medium"
    ELSE "High"

\* round(probability, 4): to the nearest multiple of 10 units, an exact tie
\* going to the even one
Round4(p) ==
    LET q == p \div 10
        r == p % 10
    IN  IF r < 5 THEN 10 * q
        ELSE IF r > 5 THEN 10 * (q + 1)
        ELSE IF q % 2 = 0 THEN 10 * q ELSE 10 * (q + 1)

NoHealth == [model_loaded |-> FALSE, model_type |-> NoType]
NoDetail == [prefix |-> "", exc |-> NoExc]

Response(status, body, detail, health) ==
    [status |-> status, body |-> body, detail |-> detail, health |-> health]

\* DiabetesPredictionResponse(prediction=..., probability=round(..., 4), risk_level=...)
PredictionResponse(prediction, probability, risk_level) ==
    [prediction |-> prediction, probability |-> Round4(probability),
     risk_level |-> risk_level]

\* main.py:157-160 and 197-200: the HTTPException raised for an exception
HttpError(e) ==
    IF e.cls = "ValueError"
    THEN Response(400, <<>>, [prefix |-> "", exc |-> e], NoHealth)
    ELSE Response(500, <<>>, [prefix |-> "Internal server error: ", exc |-> e], NoHealth)

\* what a handler leaves: the (prediction, probability) pairs predict returned
\* to it, and the response
Handled(raw, resp) == [raw |-> raw, resp |-> resp]

RawPair(r) == [label |-> r.label, probability |-> r.probability]

\* main.py:137-160
PredictDiabetesResult(s, pid) ==
    LET r == ServicePredict(s, Patient[pid])
    IN  IF r.ok
        THEN Handled(<<RawPair(r)>>,
                     Response(200,
                              <<PredictionResponse(r.label, r.probability,
                                                   RiskLevelSingle(r.probability))>>,
                              NoDetail, NoHealth))
        ELSE Handled(<<>>, HttpError(r.exc))

\* (mutant) a record that fails is skipped and the loop goes on
RECURSIVE BatchLoopSkipping(_, _, _, _, _)
BatchLoopSkipping(s, patients, k, raw, predictions) ==
    IF k > Len(patients)
    THEN Handled(raw, Response(200, predictions, NoDetail, NoHealth))
    ELSE LET r == ServicePredict(s, Patient[patients[k]])
         IN  IF r.ok
             THEN BatchLoopSkipping(s, patients, k + 1, Append(raw, RawPair(r)),
                                    Append(predictions,
                                           PredictionResponse(r.label, r.probability,
                                                              RiskLevelBatch(r.probability))))
             ELSE BatchLoopSkipping(s, patients, k + 1, raw, predictions)

\* main.py:173-194: the loop, at patient k, with the predictions appended so far
RECURSIVE BatchLoop(_, _, _, _, _)
BatchLoop(s, patients, k, raw, predictions) ==
    IF k > Len(patients)
    THEN Handled(raw, Response(200, predictions, NoDetail, NoHealth))
    ELSE LET r == ServicePredict(s, Patient[patients[k]])
         IN  IF r.ok
             THEN BatchLoop(s, patients, k + 1, Append(raw, RawPair(r)),
                            Append(predictions,
                                   PredictionResponse(r.label, r.probability,
                                                      RiskLevelBatch(r.probability))))
             ELSE Handled(raw, HttpError(r.exc))

\* main.py:170-200
PredictDiabetesBatchResult(s, patients) == BatchLoop(s, patients, 1, <<>>, <<>>)

\* (mutant) model_type is reported whether or not a model is loaded
HealthResultUnconditional(s) ==
    [model_loaded |-> IsModelLoaded(s), model_type |-> GetModelType(s)]

\* main.py:116-120
HealthResult(s) ==
    [model_loaded |-> IsModelLoaded(s),
     model_type |-> IF IsModelLoaded(s) THEN GetModelType(s) ELSE NoType]

Request(endpoint, patients, handled) ==
    [endpoint |-> endpoint, patients |-> patients, raw |-> handled.raw,
     resp |-> handled.resp]

NoRequest ==
    Request("none", <<>>, Handled(<<>>, Response(0, <<>>, NoDetail, NoHealth)))

(***************************************************************************)
(* The state machine                                                       *)
(***************************************************************************)
Init ==
    /\ dir \in Dirs
    /\ phase = "import"
    /\ svc = EmptyService
    /\ last = NoRequest

\* main.py:36: ModelService(base_dir=...) while main.py is imported.  When
\* _load_model raises, the import fails and no handler is ever registered.
Startup ==
    /\ phase = "import"
    /\ LET loaded == LoadModel(dir)
       IN  /\ phase' = IF loaded.ok THEN "serving" ELSE "failed"
           /\ svc' = loaded.svc
    /\ UNCHANGED <<dir, last>>

\* GET /
Root ==
    /\ phase = "serving"
    /\ last' = Request("root", <<>>,
                       Handled(<<>>, Response(200, <<>>, NoDetail, NoHealth)))
    /\ UNCHANGED <<dir, phase, svc>>

\* GET /health
HealthCheck ==
    /\ phase = "serving"
    /\ last' = Request("health", <<>>,
                       Handled(<<>>, Response(200, <<>>, NoDetail, HealthResult(svc))))
    /\ UNCHANGED <<dir, phase, svc>>

\* (mutant) a value the encoder does not know is added to its classes
LearnValue(s, col, value) ==
    [s EXCEPT !.label_encoders.items =
        [k \in 1..Len(@) |->
            IF @[k].col = col THEN [@[k] EXCEPT !.classes = Append(@, value)] ELSE @[k]]]

PredictDiabetesLearning(pid) ==
    /\ phase = "serving"
    /\ LET handled == PredictDiabetesResult(svc, pid)
           exc == handled.resp.detail.exc
       IN  /\ last' = Request("predict", <<pid>>, handled)
           /\ svc' = IF exc.kind = "unknown_value"
                     THEN LearnValue(svc, exc.col, exc.value)
                     ELSE svc
    /\ UNCHANGED <<dir, phase>>

\* POST /predict
PredictDiabetes(pid) ==
    /\ phase = "serving"
    /\ last' = Request("predict", <<pid>>, PredictDiabetesResult(svc, pid))
    /\ UNCHANGED <<dir, phase, svc>>

\* POST /predict/batch
PredictDiabetesBatch(patients) ==
    /\ phase = "serving"
    /\ last' = Request("batch", patients, PredictDiabetesBatchResult(svc, patients))
    /\ UNCHANGED <<dir, phase, svc>>

Next ==
    \/ Startup
    \/ Root
    \/ HealthCheck
    \/ \E pid \in PatientIds : PredictDiabetes(pid)
    \/ \E patients \in Batches : PredictDiabetesBatch(patients)

Spec == Init /\ [][Next]_vars

(***************************************************************************)
(* Properties                                                              *)
(***************************************************************************)
IsPrediction == last.endpoint \in {"predict", "batch"}

\* a classifier object, not None, is in the classifier file
ClassifierInDir == dir.model.exists /\ dir.model.obj.type # "NoneType"

\* The trained vocabulary of a column: the classes_ of the encoder the
\* label-encoder file holds for it.
HasVocabulary(col) ==
    /\ dir.encoders.exists
    /\ \E k \in 1..Len(dir.encoders.obj.items) : dir.encoders.obj.items[k].col = col

Vocabulary(col) ==
    LET items == dir.encoders.obj.items
    IN  items[CHOOSE k \in 1..Len(items) : items[k].col = col].classes

SeqRange(q) == {q[i] : i \in 1..Len(q)}

OutOfVocabulary(pid, col) ==
    HasVocabulary(col) /\ Patient[pid][col].s \notin SeqRange(Vocabulary(col))

HasUnknownCategory(pid) == \E col \in CategoricalColumns : OutOfVocabulary(pid, col)

\* every optional artifact that is present is a sound one: encoders for both
\* categorical columns, indices inside the row, names of the canonical order
PresentArtifactsSound ==
    /\ dir.encoders.exists => \A col \in CategoricalColumns : HasVocabulary(col)
    /\ dir.indices.exists =>
           /\ Len(dir.indices.obj.items) > 0
           /\ \A k \in 1..Len(dir.indices.obj.items) : dir.indices.obj.items[k] \in Columns
    /\ dir.features.exists =>
           /\ Len(dir.features.obj.items) > 0
           /\ SeqRange(dir.features.obj.items) \subseteq SeqRange(FeatureOrder)

\* the width of the vector the selection artifacts of the directory produce
SelectedWidth ==
    IF dir.indices.exists THEN Len(dir.indices.obj.items)
    ELSE IF dir.features.exists
              /\ SeqRange(dir.features.obj.items) \cap SeqRange(FeatureOrder) # {}
         THEN Cardinality({k \in 1..Len(dir.features.obj.items) :
                               dir.features.obj.items[k] \in SeqRange(FeatureOrder)})
         ELSE NumFeatures

\* the artifacts fit together: the classifier takes the width the selection
\* produces, and the indices are inside the row
ArtifactsConsistent ==
    /\ ClassifierInDir
    /\ dir.model.obj.n_features = SelectedWidth
    /\ dir.indices.exists =>
           \A k \in 1..Len(dir.indices.obj.items) : dir.indices.obj.items[k] \in Columns

\* The vocabulary a column was trained with: that of its loaded encoder, and
\* the documented values of the column where no encoder for it is loaded.
TrainedVocabulary(col) ==
    IF HasVocabulary(col) THEN SeqRange(Vocabulary(col)) ELSE DocumentedClasses(col)

OutsideTrainedVocabulary(pid) ==
    \E col \in CategoricalColumns : Patient[pid][col].s \notin TrainedVocabulary(col)

\* C1: in every configuration with a classifier loaded, a record
\* holding a categorical value outside the trained vocabulary of its column
\* never gets a (label, probability) pair, and POST /predict answers it with
\* the unknown-value error.  Stated for the configurations whose artifacts,
\* where present, are sound and fit together.
C1_UnknownCategoryAlwaysRejected ==
    (IsPrediction /\ ArtifactsConsistent /\ PresentArtifactsSound) =>
        /\ \A i \in 1..Len(last.patients) :
               OutsideTrainedVocabulary(last.patients[i]) =>
                   /\ Len(last.raw) < i
                   /\ last.resp.status # 200
        /\ (last.endpoint = "predict" /\ OutsideTrainedVocabulary(last.patients[1])) =>
               last.resp.detail.exc.kind = "unknown_value"

\* C1, where it holds: in every configuration with a classifier loaded whose
\* label-encoder file holds an encoder for the column, a record holding a
\* value outside that encoder's classes never gets a (label, probability)
\* pair: POST /predict answers with the unknown-value error naming the column,
\* the value and the accepted values, and a batch holding the record returns
\* no prediction for it.
C1_UnknownCategoryRejected ==
    (IsPrediction /\ ClassifierInDir) =>
        /\ \A i \in 1..Len(last.patients) :
               HasUnknownCategory(last.patients[i]) =>
                   /\ Len(last.raw) < i
                   /\ Len(last.resp.body) < i
                   /\ last.resp.status # 200
        /\ (last.endpoint = "predict" /\ HasUnknownCategory(last.patients[1])) =>
               \E col \in CategoricalColumns :
                   /\ OutOfVocabulary(last.patients[1], col)
                   /\ last.resp.status = 400
                   /\ last.resp.detail.exc =
                          Exc("ValueError", "unknown_value", col,
                              Patient[last.patients[1]][col].s, Vocabulary(col))

\* the response POST /predict gives for one patient, in the current state
Single(pid) == PredictDiabetesResult(svc, pid).resp

AllSucceed(patients) == \A i \in 1..Len(patients) : Single(patients[i]).status = 200

FirstFailure(patients) ==
    CHOOSE i \in 1..Len(patients) :
        /\ Single(patients[i]).status # 200
        /\ \A j \in 1..(i - 1) : Single(patients[j]).status = 200

\* C2 (as claimed): the i-th element of a batch result is the outcome of the
\* single prediction for the i-th record, whatever the other records are.
C2_BatchIsSequentialSingles ==
    last.endpoint = "batch" =>
        \A i \in 1..Len(last.patients) :
            LET single == Single(last.patients[i])
            IN  IF single.status = 200
                THEN /\ i <= Len(last.resp.body)
                     /\ last.resp.body[i] = single.body[1]
                ELSE /\ last.resp.status = single.status
                     /\ last.resp.detail = single.detail

\* C2 (amended): when every record succeeds alone, the batch result is the
\* list of the single results in input order; otherwise the whole batch fails
\* with the status and detail of the first record that fails alone, and
\* reports no prediction for any record.
C2_BatchAllOrFirstFailure ==
    last.endpoint = "batch" =>
        IF AllSucceed(last.patients)
        THEN /\ last.resp.status = 200
             /\ last.resp.body =
                    [i \in 1..Len(last.patients) |-> Single(last.patients[i]).body[1]]
        ELSE LET single == Single(last.patients[FirstFailure(last.patients)])
             IN  /\ last.resp.status = single.status
                 /\ last.resp.detail = single.detail
                 /\ last.resp.body = <<>>

C2_Witness ==
    /\ last.endpoint = "batch"
    /\ Len(last.patients) = 2
    /\ Single(last.patients[1]).status = 200
    /\ Single(last.patients[2]).status = 400
    /\ last.resp.status = 400

\* the scaled row of a patient, as _preprocess_input holds it before selecting
ScaledRow(pid) ==
    LET enc == Encode(svc, Patient[pid])
    IN  IF enc.ok THEN Scale(svc, Reorder(enc.df)) ELSE Raise(enc.exc)

RECURSIVE Ascending(_)
Ascending(S) ==
    IF S = {} THEN <<>>
    ELSE LET m == CHOOSE x \in S : \A y \in S : x <= y
         IN  <<m>> \o Ascending(S \ {m})

\* every subset of the columns in canonical order, and every ordered pair
IndexLists ==
    {Ascending(S) : S \in SUBSET Columns}
        \cup {p \in Columns \X Columns : p[1] # p[2]}

NamesOf(indices) == [k \in 1..Len(indices) |-> FeatureOrder[indices[k] + 1]]

SelectionsAgree(row, indices) ==
    SelectByIndices(row, indices) = SelectByNames(row, NamesOf(indices))

\* C3 (as claimed): for every scaled row and every subset of the 8 columns,
\* the empty one included, selecting by indices and selecting by the names of
\* the same columns in the same order give the same vector.
C3_SelectionPathsAgree ==
    (last.endpoint = "predict" /\ ScaledRow(last.patients[1]).ok) =>
        \A indices \in IndexLists :
            SelectionsAgree(ScaledRow(last.patients[1]).vec, indices)

\* C3 (amended): the same, for every non-empty subset.
C3_NonEmptySelectionPathsAgree ==
    (last.endpoint = "predict" /\ ScaledRow(last.patients[1]).ok) =>
        \A indices \in IndexLists :
            Len(indices) > 0 =>
                SelectionsAgree(ScaledRow(last.patients[1]).vec, indices)

C3_Witness ==
    /\ last.endpoint = "predict"
    /\ last.resp.status = 200
    /\ svc.feature_indices.none
    /\ ~svc.selected_features.none
    /\ Len(svc.selected_features.items) = 3
    /\ ~svc.scaler.none

ValidPatient(pid) ==
    \A col \in CategoricalColumns : Patient[pid][col].s \in DocumentedClasses(col)

\* C4: whichever optional artifacts are missing, the service starts and
\* preprocessing a valid record completes and returns a numeric vector.
C4_PreprocessSurvivesMissingArtifacts ==
    /\ (phase = "failed" => ~dir.model.exists)
    /\ (last.endpoint = "predict" /\ ClassifierInDir /\ PresentArtifactsSound
            /\ ValidPatient(last.patients[1])) =>
           LET features == PreprocessInput(svc, Patient[last.patients[1]])
           IN  features.ok /\ IsNumeric(features.vec)

RaisedException ==
    LET failing == {i \in 1..Len(last.patients) :
                        ~ServicePredict(svc, Patient[last.patients[i]]).ok}
    IN  ServicePredict(svc,
            Patient[last.patients[CHOOSE i \in failing : \A j \in failing : i <= j]]).exc

\* C6: a failed prediction request is answered with the message of the
\* failure, as 400 when the failure is an unknown categorical value and as 500
\* for every other failure (no classifier loaded, a dimension mismatch inside
\* an artifact, ...).
C6_ErrorStatusByFailureClass ==
    (IsPrediction /\ last.resp.status # 200) =>
        /\ last.resp.detail.exc = RaisedException
        /\ last.resp.status = 400 <=> RaisedException.kind = "unknown_value"
        /\ last.resp.status = 500 <=> RaisedException.kind # "unknown_value"

\* C7: on both endpoints the risk level is the same function of the
\* probability predict returned: below 0.30 Low, from 0.30 to below 0.70
\* Medium, 0.70 and above High.
C7_RiskLevelOfProbability ==
    (IsPrediction /\ last.resp.status = 200) =>
        /\ Len(last.resp.body) = Len(last.raw)
        /\ \A i \in 1..Len(last.raw) :
               last.resp.body[i].risk_level =
                   IF last.raw[i].probability < 30000 THEN "Low"
                   ELSE IF last.raw[i].probability < 70000 THEN "Medium"
                   ELSE "High"

C7_Witness ==
    /\ last.endpoint = "batch"
    /\ last.resp.status = 200
    /\ \E i \in 1..Len(last.raw) :
           last.raw[i].probability = 30000 /\ last.resp.body[i].risk_level = "Medium"

InVocabulary(pid) ==
    \A col \in CategoricalColumns :
        HasVocabulary(col) /\ Patient[pid][col].s \in SeqRange(Vocabulary(col))

\* C8: with artifacts that fit together, predict on a record whose categorical
\* values are in the encoders' vocabularies returns a label in {0,1} and a
\* probability in [0,1]: the positive-class score of a classifier that has
\* predict_proba, the label itself (0.0 or 1.0) of one that has not.
C8_PredictReturnsLabelAndProbability ==
    (last.endpoint = "predict" /\ ArtifactsConsistent /\ InVocabulary(last.patients[1])) =>
        /\ last.resp.status = 200
        /\ Len(last.raw) = 1
        /\ last.raw[1].label \in {0, 1}
        /\ last.raw[1].probability \in 0..ProbOne
        /\ last.raw[1].probability =
               IF dir.model.obj.has_proba
               THEN PredictProba(dir.model.obj,
                                 PreprocessInput(svc, Patient[last.patients[1]]).vec)[2]
               ELSE last.raw[1].label * ProbOne
        /\ last.resp.body[1].prediction = last.raw[1].label

C8_Witness ==
    /\ last.endpoint = "predict"
    /\ ArtifactsConsistent
    /\ InVocabulary(last.patients[1])
    /\ ~dir.model.obj.has_proba
    /\ last.raw = <<[label |-> 1, probability |-> ProbOne]>>

\* the answer a handler gives on the service as it was loaded at startup
AnswerAlone ==
    LET loaded == LoadModel(dir).svc
    IN  IF last.endpoint = "predict"
        THEN PredictDiabetesResult(loaded, last.patients[1])
        ELSE PredictDiabetesBatchResult(loaded, last.patients)

\* C9: once serving, no request changes a field of the shared service; a
\* request repeated right after itself gets the same answer, and every
\* prediction request gets the answer it would get as the only request since
\* startup.
C9_ServiceReadOnly ==
    /\ [][phase = "serving" =>
            /\ svc' = svc
            /\ (last'.endpoint = last.endpoint /\ last'.patients = last.patients)
                   => last' = last]_vars
    /\ [](IsPrediction => (last.resp = AnswerAlone.resp /\ last.raw = AnswerAlone.raw))

C9_Witness ==
    /\ last.endpoint = "batch"
    /\ Len(last.patients) = 2
    /\ last.resp.status = 200
    /\ last.raw[1] # last.raw[2]

\* C10: in every prediction response the risk level is the bucket of the
\* probability the response reports (the rounded one).
C10_RiskAgreesWithReportedProbability ==
    (IsPrediction /\ last.resp.status = 200) =>
        \A i \in 1..Len(last.resp.body) :
            last.resp.body[i].risk_level =
                IF last.resp.body[i].probability < 30000 THEN "Low"
                ELSE IF last.resp.body[i].probability < 70000 THEN "Medium"
                ELSE "High"

====
